---- MODULE Spec2Model ----
(***************************************************************************)
(* Room swap engine of flexible_app.py / swap_app.py: the global state     *)
(* (PEOPLE, ROOMS, ASSIGNMENT, PRICES, STATES, AVAILABLE_NAMES,            *)
(* PENDING_SWAPS, TOTAL_RENT), init_allocation, and the request handlers   *)
(* do_GET (/choose) and do_POST (/set_state, /propose_swap, /respond_swap).*)
(*                                                                         *)
(* Amounts are integers counted in half-cents (200 = 1.00), so that a      *)
(* price typed with three decimals (0.125) is a value distinct from its    *)
(* rounding.  round(x, 2) is Python's: to the nearest cent, a value        *)
(* exactly halfway between two cents going to the even cent.  The price    *)
(* strings of the input menu and the initial prices (3606 shared by two,   *)
(* three or four) are exactly representable as binary floats, so the      *)
(* handlers' float arithmetic on them is exact.  Once a rounded price that *)
(* is not (0.12) enters a later halfway case, Python decides by the binary *)
(* error of the operands: the model then allows either neighbouring cent.  *)
(***************************************************************************)
EXTENDS Integers, Sequences, FiniteSets, TLC

VARIABLES PEOPLE, ROOMS, ASSIGNMENT, PRICES, STATES, AVAILABLE_NAMES,
          PENDING_SWAPS, TOTAL_RENT, offers_made, last, backlog, handlers,
          swap_app

vars == <<PEOPLE, ROOMS, ASSIGNMENT, PRICES, STATES, AVAILABLE_NAMES,
          PENDING_SWAPS, TOTAL_RENT, offers_made, last, backlog, handlers,
          swap_app>>

\* the server's socket: connections waiting to be accepted (backlog) and
\* handlers that have started and not yet answered (handlers)
net == <<backlog, handlers>>

\* the variables a request to flexible_app.py leaves alone: the socket, and
\* swap_app (the globals of swap_app.py when it is run beside flexible_app.py
\* on the same requests)
aside == <<net, swap_app>>

engine == <<ASSIGNMENT, PRICES, STATES, AVAILABLE_NAMES, PENDING_SWAPS>>

config == <<PEOPLE, ROOMS, TOTAL_RENT>>

-----------------------------------------------------------------------------
(* Bounds of the exploration *)

\* successful /propose_swap requests explored in one run
MaxOffers == 2

-----------------------------------------------------------------------------
(* Values *)

None == "None"

\* the four housemates of swap_app.py, in list order
Housemates == <<"Karim", "Hassan", "Benjamin", "Hassaan">>

\* a cookie value that names no participant
Stranger == "Mallory"

Range(s) == {s[i] : i \in 1..Len(s)}

\* f"unit_{i+1}" for i in range(n)
RoomNames(n) == [i \in 1..n |-> CASE i = 1 -> "unit_1" [] i = 2 -> "unit_2"
                                  [] i = 3 -> "unit_3" [] OTHER -> "unit_4"]

\* outcomes of random.shuffle(ROOMS) explored: the list as built and the list
\* reversed, so that the first and the last unit both fall to each end of PEOPLE
Shuffles(rooms) ==
    LET n == Len(rooms)
    IN  {rooms, [i \in 1..n |-> rooms[n + 1 - i]]}

-----------------------------------------------------------------------------
(* Arithmetic of amounts *)

\* the integers nearest to num/den (den > 0), a tie going to the even one
RoundHalfEven(num, den) ==
    LET q == num \div den
        r == num % den
    IN  IF 2 * r < den THEN q
        ELSE IF 2 * r > den THEN q + 1
        ELSE IF q % 2 = 0 THEN q ELSE q + 1

\* round(x, 2) of an amount x given in half-cents; the result in half-cents
Round2(x) == 2 * RoundHalfEven(x, 2)

\* round(total / n, 2)
RoundShare(total, n) == 2 * RoundHalfEven(total, 2 * n)

RECURSIVE SumOver(_, _)
SumOver(prices, rooms) ==
    IF rooms = <<>> THEN 0
    ELSE prices[Head(rooms)] + SumOver(prices, Tail(rooms))

\* sum(PRICES.values())
SumPrices(prices, rooms) == SumOver(prices, rooms)

-----------------------------------------------------------------------------
(* Request parameters: what a client can put in a cookie, a query string   *)
(* or a form body.  None is an absent parameter.                           *)

Blank == " "

\* values of the form field 'price' as they stand in the request body
RawPrices == {None, "", Blank, "0", "0.25", "0.125", "-1", "abc"}

\* values of the form field 'state'
RawStates == {None, "satisfied", "unsatisfied", "happy"}

\* values of the form field 'action'
RawActions == {None, "accept", "decline", "maybe"}

\* names a request can carry: a participant, no name, or a name outside PEOPLE
Names(people) == Range(people) \cup {None, Stranger}

\* urllib.parse.parse_qs(...).get(key, [None])[0]: keep_blank_values is off,
\* so a field sent with an empty value is dropped and reads as absent
ParseQs(raw) == IF raw = "" THEN None ELSE raw

\* str.strip()
Strip(s) == IF s = Blank THEN "" ELSE s

\* float('nan'): not an amount. It stands above every amount of a session, so
\* that 'nan == 0' and 'nan < 0' are both false, as they are in Python
NaN == 2147483647

\* the strings float() accepts; any other raises ValueError
IsNumber(s) == s \in {"0", "0.25", "0.125", "-1", "800", "5000", "nan"}

\* float(price_str), in half-cents
Float(s) ==
    CASE s = "0"     -> 0
      [] s = "0.25"  -> 50
      [] s = "0.125" -> 25
      [] s = "-1"    -> -200
      [] s = "800"   -> 160000
      [] s = "5000"  -> 1000000
      [] s = "nan"   -> NaN

\* the try block of /propose_swap: ok is FALSE when it raises ValueError,
\* otherwise value is offered_price
OfferedPrice(price_str, target, prices, assignment) ==
    LET rejected == [ok |-> FALSE, value |-> 0]
        current  == prices[assignment[target]]
    IN  IF Strip(price_str) = ""
        THEN IF current < 0 THEN rejected ELSE [ok |-> TRUE, value |-> current]
        ELSE IF ~IsNumber(price_str) THEN rejected
        ELSE LET offered_price == IF Float(price_str) = 0 THEN current
                                  ELSE Float(price_str)
             IN  IF offered_price < 0 THEN rejected
                 ELSE [ok |-> TRUE, value |-> offered_price]

-----------------------------------------------------------------------------
(* init_allocation *)

\* PRICES = {room: base_price for room in ROOMS} with no discrepancy fix
InitialPricesUniform(total_rent, rooms) ==
    [room \in Range(rooms) |-> RoundShare(total_rent, Len(rooms))]

\* PRICES after init_allocation(total_rent) for the shuffled list rooms
InitialPrices(total_rent, rooms) ==
    LET n           == Len(rooms)
        base_price  == RoundShare(total_rent, n)
        uniform     == [room \in Range(rooms) |-> base_price]
        discrepancy == Round2(total_rent - SumPrices(uniform, rooms))
    IN  IF discrepancy # 0
        THEN [uniform EXCEPT ![rooms[n]] = Round2(uniform[rooms[n]] + discrepancy)]
        ELSE uniform

\* ASSIGNMENT = {person: ROOMS[i] for i, person in enumerate(PEOPLE)}
InitialAssignment(people, rooms) ==
    [person \in Range(people) |->
        rooms[CHOOSE i \in 1..Len(people) : people[i] = person]]

\* the last request answered: its route, the status sent, the cookie's user,
\* the other participant named, the third form value, and for /respond_swap
\* the handler's locals idx, offered_price and the snapshot (old_assignment,
\* the two rooms and their prices) with the pending list as the request found
\* it; for a call of init_allocation on a running session, the session it
\* found (old_pending, old_states, old_available)
NoRequest == [op |-> "init_allocation", status |-> None, user |-> None,
              other |-> None, input |-> None, idx |-> 0,
              offered_price |-> 0, proposer_room |-> None, target_room |-> None,
              price_proposer_room |-> 0, price_target_room |-> 0,
              old_assignment |-> <<>>, old_pending |-> <<>>,
              old_states |-> <<>>, old_available |-> {}]

\* swap_app.py is not run
NotRunning == [status |-> "not running"]

\* the globals of flexible_app.py after init_allocation
SessionStart(people, total_rent) ==
    /\ PEOPLE = people
    /\ TOTAL_RENT = total_rent
    /\ ROOMS \in Shuffles(RoomNames(Len(people)))
    /\ ASSIGNMENT = InitialAssignment(people, ROOMS)
    /\ PRICES = InitialPrices(total_rent, ROOMS)
    /\ AVAILABLE_NAMES = Range(people)
    /\ STATES = [p \in Range(people) |-> None]
    /\ PENDING_SWAPS = <<>>
    /\ offers_made = 0
    /\ last = NoRequest
    /\ backlog = {}
    /\ handlers = {}

init_allocation(people, total_rent) ==
    /\ SessionStart(people, total_rent)
    /\ swap_app = NotRunning

\* init_allocation without 'PENDING_SWAPS = []'
SessionKeepsOffers(people) ==
    [available |-> Range(people),
     states    |-> [p \in Range(people) |-> None],
     pending   |-> PENDING_SWAPS]

\* AVAILABLE_NAMES = set(PEOPLE); STATES = {p: None for p in PEOPLE};
\* PENDING_SWAPS = []
FreshSession(people) ==
    [available |-> Range(people),
     states    |-> [p \in Range(people) |-> None],
     pending   |-> <<>>]

\* init_allocation(total_rent) called again on a session that has served
\* requests: PEOPLE is the list it already was
Initialize(total_rent) ==
    /\ TOTAL_RENT' = total_rent
    /\ ROOMS' \in Shuffles(RoomNames(Len(PEOPLE)))
    /\ ASSIGNMENT' = InitialAssignment(PEOPLE, ROOMS')
    /\ PRICES' = InitialPrices(total_rent, ROOMS')
    /\ AVAILABLE_NAMES' = FreshSession(PEOPLE).available
    /\ STATES' = FreshSession(PEOPLE).states
    /\ PENDING_SWAPS' = FreshSession(PEOPLE).pending
    /\ last' = [NoRequest EXCEPT !.old_pending = PENDING_SWAPS,
                                 !.old_states = STATES,
                                 !.old_available = AVAILABLE_NAMES]
    /\ UNCHANGED <<PEOPLE, offers_made, aside>>

-----------------------------------------------------------------------------
(* do_GET: /choose *)

Answer(op, status, user, input) ==
    [NoRequest EXCEPT !.op = op, !.status = status, !.user = user, !.input = input]

\* /choose testing 'username in PEOPLE' in place of 'in AVAILABLE_NAMES'
ChooseAnyParticipant(username) ==
    IF username # None /\ username \in Range(PEOPLE)
    THEN /\ AVAILABLE_NAMES' = AVAILABLE_NAMES \ {username}
         /\ last' = Answer("choose", "SEE_OTHER", username, None)
         /\ UNCHANGED <<ASSIGNMENT, PRICES, STATES, PENDING_SWAPS, offers_made, config>>
    ELSE /\ last' = Answer("choose", "ERROR_PAGE", None, None)
         /\ UNCHANGED <<engine, offers_made, config>>

\* /choose?user=<username> once the test 'username and username in
\* AVAILABLE_NAMES' has given found
ChooseFound(username, found) ==
    IF found
    THEN /\ AVAILABLE_NAMES' = AVAILABLE_NAMES \ {username}
         /\ last' = Answer("choose", "SEE_OTHER", username, None)
         /\ UNCHANGED <<ASSIGNMENT, PRICES, STATES, PENDING_SWAPS, offers_made, config>>
    ELSE /\ last' = Answer("choose", "ERROR_PAGE", None, None)
         /\ UNCHANGED <<engine, offers_made, config>>

\* username and username in AVAILABLE_NAMES
IsAvailable(username) == username # None /\ username \in AVAILABLE_NAMES

\* /choose?user=<username>
Choose(username) == ChooseFound(username, IsAvailable(username))

-----------------------------------------------------------------------------
(* do_POST *)

\* not username or username not in PEOPLE
IsForbidden(username) == username = None \/ username \notin Range(PEOPLE)

\* any POST whose cookie names no participant
Forbidden(username) ==
    /\ IsForbidden(username)
    /\ last' = Answer("do_POST", "FORBIDDEN", None, None)
    /\ UNCHANGED <<engine, offers_made, config>>

\* /set_state without the membership test on the form value
NewStatesUnchecked(states, username, state) ==
    [states EXCEPT ![username] = state]

\* /set_state storing the value for every participant
NewStatesForAll(states, username, state) ==
    IF state \in {"satisfied", "unsatisfied"}
    THEN [p \in DOMAIN states |-> state]
    ELSE states

\* STATES after /set_state with form value state
NewStates(states, username, state) ==
    IF state \in {"satisfied", "unsatisfied"}
    THEN [states EXCEPT ![username] = state]
    ELSE states

\* POST /set_state
SetState(username, raw_state) ==
    LET state == ParseQs(raw_state)
    IN  /\ ~IsForbidden(username)
        /\ STATES' = NewStates(STATES, username, state)
        /\ last' = Answer("set_state", "SEE_OTHER", username, state)
        /\ UNCHANGED <<ASSIGNMENT, PRICES, AVAILABLE_NAMES, PENDING_SWAPS,
                       offers_made, config>>

\* a test that also turns away an offer to a target who declared satisfied
InvalidSwapRequestToSatisfied(username, target, price_str) ==
    \/ target = None
    \/ price_str = None
    \/ target \notin Range(PEOPLE)
    \/ target = username
    \/ STATES[target] = "satisfied"

\* target is None or price_str is None or target not in PEOPLE or target == username
InvalidSwapRequest(username, target, price_str) ==
    \/ target = None
    \/ price_str = None
    \/ target \notin Range(PEOPLE)
    \/ target = username

\* an append that skips an offer equal to one already pending
AppendOfferOnce(pending, username, target, offered_price) ==
    LET r == [proposer |-> username, target |-> target,
              offered_price |-> offered_price]
    IN  IF r \in Range(pending) THEN pending ELSE Append(pending, r)

\* PENDING_SWAPS.append({'proposer': ..., 'target': ..., 'offered_price': ...})
AppendOffer(pending, username, target, offered_price) ==
    Append(pending, [proposer |-> username, target |-> target,
                     offered_price |-> offered_price])

\* POST /propose_swap
ProposeSwap(username, target, raw_price) ==
    LET price_str == ParseQs(raw_price)
    IN  /\ ~IsForbidden(username)
        /\ IF InvalidSwapRequest(username, target, price_str)
           THEN /\ last' = Answer("propose_swap", "BAD_REQUEST", None, None)
                /\ UNCHANGED <<engine, offers_made, config>>
           ELSE LET price == OfferedPrice(price_str, target, PRICES, ASSIGNMENT)
                IN  IF ~price.ok
                    THEN /\ last' = Answer("propose_swap", "BAD_REQUEST", None, None)
                         /\ UNCHANGED <<engine, offers_made, config>>
                    ELSE /\ offers_made < MaxOffers
                         /\ PENDING_SWAPS' =
                                AppendOffer(PENDING_SWAPS, username, target, price.value)
                         /\ offers_made' = offers_made + 1
                         /\ last' = [Answer("propose_swap", "SEE_OTHER", username, None)
                                       EXCEPT !.other = target,
                                              !.offered_price = price.value,
                                              !.old_pending = PENDING_SWAPS]
                         /\ UNCHANGED <<ASSIGNMENT, PRICES, STATES, AVAILABLE_NAMES, config>>

\* /respond_swap without 'PENDING_SWAPS.pop(idx)': the offer stays listed
PopNone(pending, idx) == pending

\* the loop of /respond_swap without its break: the last match wins
FindLastOffer(pending, proposer, username) ==
    LET matching == {i \in 1..Len(pending) :
                        pending[i].proposer = proposer /\ pending[i].target = username}
    IN  IF matching = {} THEN 0
        ELSE CHOOSE i \in matching : \A j \in matching : i >= j

\* the loop of /respond_swap: the index of the first pending request from
\* proposer to username, 0 when there is none (idx is None)
FindOffer(pending, proposer, username) ==
    LET matching == {i \in 1..Len(pending) :
                        pending[i].proposer = proposer /\ pending[i].target = username}
    IN  IF matching = {} THEN 0
        ELSE CHOOSE i \in matching : \A j \in matching : i <= j

\* PENDING_SWAPS.pop() without the index: the newest request is dropped
PopLast(pending, idx) == SubSeq(pending, 1, Len(pending) - 1)

\* the list after PENDING_SWAPS.pop(idx)
PopAt(pending, idx) ==
    [i \in 1..(Len(pending) - 1) |-> IF i < idx THEN pending[i] ELSE pending[i + 1]]

\* involves_rooms(r) looking at the proposer's room alone
involves_proposer_room(r, old_assignment, rooms_involved) ==
    old_assignment[r.proposer] \in rooms_involved

\* involves_rooms(r) of the accept branch
involves_rooms(r, old_assignment, rooms_involved) ==
    \/ old_assignment[r.proposer] \in rooms_involved
    \/ old_assignment[r.target] \in rooms_involved

\* PENDING_SWAPS[:] = []: every pending request dropped on an accept
PruneAllOffers(pending, old_assignment, rooms_involved) == <<>>

\* PENDING_SWAPS[:] = [r for r in PENDING_SWAPS if not involves_rooms(r)]
PruneOffers(pending, old_assignment, rooms_involved) ==
    LET keep(r) == ~involves_rooms(r, old_assignment, rooms_involved)
    IN  SelectSeq(pending, keep)

\* ASSIGNMENT[proposer] = target_room alone: the target is not moved
MoveProposerOnly(assignment, proposer, username) ==
    [assignment EXCEPT ![proposer] = assignment[username]]

\* ASSIGNMENT[proposer], ASSIGNMENT[username] = target_room, proposer_room
SwapRooms(assignment, proposer, username) ==
    [assignment EXCEPT ![proposer] = assignment[username],
                       ![username] = assignment[proposer]]

\* the accept branch storing the offered price as typed, without round()
AcceptPricesUnrounded(prices, proposer_room, target_room, offered_price) ==
    LET new_price_proposer_old_room ==
            prices[proposer_room] + prices[target_room] - offered_price
        first == [prices EXCEPT ![target_room] = offered_price]
    IN  [first EXCEPT ![proposer_room] = Round2(new_price_proposer_old_room)]

\* the accept branch writing the proposer's new price on every room but the
\* target's
AcceptPricesAllRooms(prices, proposer_room, target_room, offered_price) ==
    LET new_price_proposer_old_room ==
            prices[proposer_room] + prices[target_room] - offered_price
    IN  [room \in DOMAIN prices |->
            IF room = target_room THEN Round2(offered_price)
            ELSE Round2(new_price_proposer_old_room)]

\* the accept branch with the two rooms exchanged: the offered price on the
\* proposer's old room, the remainder on the target's
AcceptPricesSwapped(prices, proposer_room, target_room, offered_price) ==
    LET new_price_proposer_old_room ==
            prices[proposer_room] + prices[target_room] - offered_price
        first == [prices EXCEPT ![proposer_room] = Round2(offered_price)]
    IN  [first EXCEPT ![target_room] = Round2(new_price_proposer_old_room)]

\* the two price assignments of the accept branch
AcceptPrices(prices, proposer_room, target_room, offered_price) ==
    LET new_price_proposer_old_room ==
            prices[proposer_room] + prices[target_room] - offered_price
        first == [prices EXCEPT ![target_room] = Round2(offered_price)]
    IN  [first EXCEPT ![proposer_room] = Round2(new_price_proposer_old_room)]

\* an else branch that leaves the prices alone
DeclineKeepsPrices(prices, proposer_room, target_room, offered_price) == prices

\* the two price assignments of the else branch
DeclinePrices(prices, proposer_room, target_room, offered_price) ==
    LET total_pair == prices[proposer_room] + prices[target_room]
        first == [prices EXCEPT ![target_room] = Round2(offered_price)]
    IN  [first EXCEPT ![proposer_room] = Round2(total_pair - offered_price)]

\* a price that a binary float holds exactly: a multiple of 0.25
IsExact(price) == price % 50 = 0

\* PRICES after the two round(..., 2) of a branch of /respond_swap: result is
\* what they give in exact arithmetic.  The sum of the two prices less the
\* offered price is a float; when it lies halfway between two cents and the
\* sum of the two prices is not exact, its binary error decides, to either
\* cent
RoundedPrices(result, prices, proposer_room, target_room, offered_price) ==
    LET total_pair == prices[proposer_room] + prices[target_room]
        value      == total_pair - offered_price
    IN  IF value % 2 = 1 /\ ~IsExact(total_pair)
        THEN {[result EXCEPT ![proposer_room] = value - 1],
              [result EXCEPT ![proposer_room] = value + 1]}
        ELSE {result}

\* a test that takes every action but decline for an accept
IsNotDecline(action) == action # "decline"

\* if action == 'accept': ... else: ...
IsAccept(action) == action = "accept"

\* POST /respond_swap once its loop over PENDING_SWAPS has given idx (0 for
\* None)
RespondAt(username, proposer, raw_action, idx) ==
    LET action == ParseQs(raw_action)
    IN  /\ ~IsForbidden(username)
        /\ IF idx = 0
           THEN /\ last' = Answer("respond_swap", "BAD_REQUEST", None, None)
                /\ UNCHANGED <<engine, offers_made, config>>
           ELSE LET req            == PENDING_SWAPS[idx]
                    popped         == PopAt(PENDING_SWAPS, idx)
                    offered_price  == req.offered_price
                    old_assignment == ASSIGNMENT
                    proposer_room  == old_assignment[proposer]
                    target_room    == old_assignment[username]
                IN  /\ IF IsAccept(action)
                       THEN /\ ASSIGNMENT' = SwapRooms(ASSIGNMENT, proposer, username)
                            /\ PRICES' \in RoundedPrices(
                                   AcceptPrices(PRICES, proposer_room, target_room,
                                                offered_price),
                                   PRICES, proposer_room, target_room, offered_price)
                            /\ PENDING_SWAPS' = PruneOffers(popped, old_assignment,
                                                            {proposer_room, target_room})
                       ELSE /\ PRICES' \in RoundedPrices(
                                   DeclinePrices(PRICES, proposer_room, target_room,
                                                 offered_price),
                                   PRICES, proposer_room, target_room, offered_price)
                            /\ PENDING_SWAPS' = popped
                            /\ UNCHANGED ASSIGNMENT
                    /\ last' = [op |-> "respond_swap", status |-> "SEE_OTHER",
                                user |-> username, other |-> proposer,
                                input |-> action, idx |-> idx,
                                offered_price |-> offered_price,
                                proposer_room |-> proposer_room,
                                target_room |-> target_room,
                                price_proposer_room |-> PRICES[proposer_room],
                                price_target_room |-> PRICES[target_room],
                                old_assignment |-> old_assignment,
                                old_pending |-> PENDING_SWAPS,
                                old_states |-> <<>>, old_available |-> {}]
                    /\ UNCHANGED <<STATES, AVAILABLE_NAMES, offers_made, config>>

\* POST /respond_swap
RespondSwap(username, proposer, raw_action) ==
    RespondAt(username, proposer, raw_action,
              FindOffer(PENDING_SWAPS, proposer, username))

-----------------------------------------------------------------------------
(* The server: requests are handled one at a time (http.server.HTTPServer) *)

Cookies == Names(PEOPLE)

\* GET /choose and POST /set_state from any client
SessionRequest ==
    \/ \E username \in Names(PEOPLE) : Choose(username) /\ UNCHANGED aside
    \/ \E username \in Cookies, raw_state \in RawStates :
           SetState(username, raw_state) /\ UNCHANGED aside

\* POST /propose_swap and /respond_swap from any client, the price field
\* taken from raw_prices
TradeRequest(raw_prices) ==
    \/ \E username \in Cookies : Forbidden(username) /\ UNCHANGED aside
    \/ \E username \in Cookies, target \in Names(PEOPLE), raw_price \in raw_prices :
           ProposeSwap(username, target, raw_price) /\ UNCHANGED aside
    \/ \E username \in Cookies, proposer \in Names(PEOPLE), raw_action \in RawActions :
           RespondSwap(username, proposer, raw_action) /\ UNCHANGED aside

\* the rent configured in run() of swap_app.py, in half-cents (3606.00)
apartment_price == 721200

\* two housemates and every request; offers at the current rate
SessionPrices == {"", Blank, "-1"}

Init == init_allocation(SubSeq(Housemates, 1, 2), apartment_price)

Next == SessionRequest \/ TradeRequest(SessionPrices)

Spec == Init /\ [][Next]_vars

\* two housemates declaring states between offers at the current rate
SatisfactionPrices == {Blank}

NextSatisfaction ==
    \/ \E username \in Cookies, raw_state \in RawStates :
           SetState(username, raw_state) /\ UNCHANGED aside
    \/ TradeRequest(SatisfactionPrices)

SpecSatisfaction == Init /\ [][NextSatisfaction]_vars

\* two housemates negotiating at the current rate or at a price with a
\* fraction of a cent
PairPrices == {Blank, "0.125"}

NextPair == TradeRequest(PairPrices)

SpecPair == Init /\ [][NextPair]_vars

\* three housemates negotiating at the current rate or at a price with a
\* fraction of a cent
TradePrices == {"", Blank, "0", "0.125"}

InitTrade == init_allocation(SubSeq(Housemates, 1, 3), apartment_price)

NextTrade == TradeRequest(TradePrices)

SpecTrade == InitTrade /\ [][NextTrade]_vars

\* the same three with every price of the menu
NextPrices == TradeRequest(RawPrices)

SpecPrices == InitTrade /\ [][NextPrices]_vars

\* the four housemates of swap_app.py negotiating at the current rate
FourPrices == {Blank, "abc"}

InitFour == init_allocation(Housemates, apartment_price)

NextFour == TradeRequest(FourPrices)

SpecFour == InitFour /\ [][NextFour]_vars

\* three housemates and an offer above the rent of the whole apartment
OverbidPrices == {Blank, "5000"}

NextOverbid == TradeRequest(OverbidPrices)

SpecOverbid == InitTrade /\ [][NextOverbid]_vars

\* the last housemate claims a name and declares states while the three
\* negotiate at a price of their own, in whole cents
Bystander == {PEOPLE[Len(PEOPLE)]}

BystanderRequest ==
    \/ \E username \in Bystander : Choose(username) /\ UNCHANGED aside
    \/ \E username \in Bystander, raw_state \in RawStates :
           SetState(username, raw_state) /\ UNCHANGED aside

BystanderPrices == {"0.25"}

NextBystander == BystanderRequest \/ TradeRequest(BystanderPrices)

SpecBystander == InitTrade /\ [][NextBystander]_vars

\* rents a session can be configured with, in half-cents: 100.00 and 100.04
TotalRents == {20000, 20008}

\* two or three housemates and any of the rents; init_allocation is called
\* again between requests
InitAny ==
    \E n \in 2..3, total_rent \in TotalRents :
        init_allocation(SubSeq(Housemates, 1, n), total_rent)

ResetPrices == {Blank}

NextReset ==
    \/ BystanderRequest
    \/ TradeRequest(ResetPrices)
    \/ \E total_rent \in TotalRents : Initialize(total_rent)

SpecReset == InitAny /\ [][NextReset]_vars

\* POST /propose_swap from any client, the price field taken from raw_prices
ProposeRequest(raw_prices) ==
    \/ \E username \in Cookies : Forbidden(username) /\ UNCHANGED aside
    \/ \E username \in Cookies, target \in Names(PEOPLE), raw_price \in raw_prices :
           ProposeSwap(username, target, raw_price) /\ UNCHANGED aside

\* three housemates filling the offer book, some with a price that is not a
\* number; no offer is answered, the arithmetic of /respond_swap on nan being
\* outside the amounts of this model
NaNPrices == {Blank, "nan", "-1"}

NextNaN == ProposeRequest(NaNPrices)

SpecNaN == InitTrade /\ [][NextNaN]_vars

\* the four housemates of swap_app.py and offers at 800
ScenarioPrices == {"800"}

\* the two housemates of the scenario make the offers; anyone answers
Negotiators == {"Hassan", "Karim"}

NextScenario ==
    \/ \E username \in Cookies : Forbidden(username) /\ UNCHANGED aside
    \/ \E username \in Negotiators, target \in Names(PEOPLE),
          raw_price \in ScenarioPrices :
           ProposeSwap(username, target, raw_price) /\ UNCHANGED aside
    \/ \E username \in Cookies, proposer \in Names(PEOPLE), raw_action \in RawActions :
           RespondSwap(username, proposer, raw_action) /\ UNCHANGED aside

SpecScenario == InitFour /\ [][NextScenario]_vars

-----------------------------------------------------------------------------
(* main of flexible_app.py: the configuration given on the command line *)

\* the module as imported: no participant, no unit, rent 0.0
Imported ==
    /\ PEOPLE = <<>>
    /\ TOTAL_RENT = 0
    /\ ROOMS = <<>>
    /\ ASSIGNMENT = <<>>
    /\ PRICES = <<>>
    /\ AVAILABLE_NAMES = {}
    /\ STATES = <<>>
    /\ PENDING_SWAPS = <<>>
    /\ offers_made = 0
    /\ last = [NoRequest EXCEPT !.op = "import"]
    /\ backlog = {}
    /\ handlers = {}
    /\ swap_app = NotRunning

\* str.lower on the names of the menus
Lower(n) ==
    CASE n = "Karim"  -> "karim"
      [] n = "Hassan" -> "hassan"
      [] OTHER        -> n

\* the names kept by the wizard: the first of each group equal under lower()
RECURSIVE Dedup(_)
Dedup(names) ==
    IF names = <<>> THEN <<>>
    ELSE LET front == SubSeq(names, 1, Len(names) - 1)
             n     == names[Len(names)]
         IN  IF \E i \in DOMAIN front : Lower(front[i]) = Lower(n)
             THEN Dedup(front)
             ELSE Append(Dedup(front), n)

\* --total and --names of the command line, the names split at the commas,
\* stripped and the empty ones dropped; the rents in half-cents
ConfigTotals == {-200, 0, 20000}

ConfigNames ==
    {<<>>, <<"Karim">>, <<"Karim", "Hassan">>, <<"Karim", "Karim", "Hassan">>,
     <<"Karim", "karim", "Hassan">>, <<"Karim", "karim">>}

\* main(): _interactive_wizard, then PEOPLE = names and init_allocation(total);
\* the wizard leaves with SystemExit('Invalid configuration.') before anything
\* is assigned
Main(total, names) ==
    LET dedup == Dedup(names)
    IN  /\ last.op = "import"
        /\ IF total <= 0 \/ Len(dedup) < 2
           THEN /\ last' = [NoRequest EXCEPT !.op = "main", !.status = "SystemExit",
                                             !.input = names]
                /\ UNCHANGED <<engine, config, offers_made, aside>>
           ELSE /\ PEOPLE' = dedup
                /\ TOTAL_RENT' = total
                /\ ROOMS' \in Shuffles(RoomNames(Len(dedup)))
                /\ ASSIGNMENT' = InitialAssignment(dedup, ROOMS')
                /\ PRICES' = InitialPrices(total, ROOMS')
                /\ AVAILABLE_NAMES' = FreshSession(dedup).available
                /\ STATES' = FreshSession(dedup).states
                /\ PENDING_SWAPS' = FreshSession(dedup).pending
                /\ last' = [NoRequest EXCEPT !.op = "main", !.input = names]
                /\ UNCHANGED <<offers_made, aside>>

\* run() has been reached: main did not leave with SystemExit
Serving == last.op # "import" /\ last.status # "SystemExit"

ConfigPrices == {Blank, "0.25"}

NextConfig ==
    \/ \E total \in ConfigTotals, names \in ConfigNames : Main(total, names)
    \/ \E username \in Cookies :
           Serving /\ Forbidden(username) /\ UNCHANGED aside
    \/ \E username \in Cookies, target \in Names(PEOPLE), raw_price \in ConfigPrices :
           Serving /\ ProposeSwap(username, target, raw_price) /\ UNCHANGED aside
    \/ \E username \in Cookies, proposer \in Names(PEOPLE), raw_action \in RawActions :
           Serving /\ RespondSwap(username, proposer, raw_action) /\ UNCHANGED aside

SpecConfig == Imported /\ [][NextConfig]_vars

-----------------------------------------------------------------------------
(* swap_app.py run beside flexible_app.py: the same participants, rent and  *)
(* shuffle, and every request sent to both.  swap_app holds the globals of  *)
(* swap_app.py, the status of its last answer, and the units whose price is *)
(* a float that was never passed through round() (unrounded).               *)

\* PRICES[ROOMS[-1]] += discrepancy: the sum is stored as the float addition
\* gives it
swap_InitialPrices(total_rent, rooms) ==
    LET n           == Len(rooms)
        base_price  == RoundShare(total_rent, n)
        uniform     == [room \in Range(rooms) |-> base_price]
        discrepancy == Round2(total_rent - SumPrices(uniform, rooms))
    IN  IF discrepancy # 0
        THEN [uniform EXCEPT ![rooms[n]] = uniform[rooms[n]] + discrepancy]
        ELSE uniform

\* the units init_allocation of swap_app.py prices without round()
swap_Unrounded(total_rent, rooms) ==
    IF swap_InitialPrices(total_rent, rooms)[rooms[Len(rooms)]]
           # RoundShare(total_rent, Len(rooms))
    THEN {rooms[Len(rooms)]}
    ELSE {}

\* init_allocation of swap_app.py, random.shuffle giving rooms
swap_init_allocation(people, total_rent, rooms) ==
    [ASSIGNMENT      |-> InitialAssignment(people, rooms),
     PRICES          |-> swap_InitialPrices(total_rent, rooms),
     unrounded       |-> swap_Unrounded(total_rent, rooms),
     AVAILABLE_NAMES |-> Range(people),
     STATES          |-> [p \in Range(people) |-> None],
     PENDING_SWAPS   |-> <<>>,
     status          |-> None]

\* do_GET of swap_app.py: /choose
swap_Choose(username) ==
    swap_app' =
        IF username # None /\ username \in swap_app.AVAILABLE_NAMES
        THEN [swap_app EXCEPT !.AVAILABLE_NAMES = @ \ {username},
                              !.status = "SEE_OTHER"]
        ELSE [swap_app EXCEPT !.status = "ERROR_PAGE"]

\* do_POST of swap_app.py with a cookie that names no participant
swap_Forbidden == swap_app' = [swap_app EXCEPT !.status = "FORBIDDEN"]

\* do_POST of swap_app.py: /set_state
swap_SetState(username, raw_state) ==
    swap_app' = [swap_app EXCEPT !.STATES = NewStates(@, username, ParseQs(raw_state)),
                                 !.status = "SEE_OTHER"]

\* do_POST of swap_app.py: /propose_swap
swap_ProposeSwap(username, target, raw_price) ==
    LET price_str == ParseQs(raw_price)
        rejected  == [swap_app EXCEPT !.status = "BAD_REQUEST"]
    IN  swap_app' =
            IF InvalidSwapRequest(username, target, price_str)
            THEN rejected
            ELSE LET price == OfferedPrice(price_str, target, swap_app.PRICES,
                                           swap_app.ASSIGNMENT)
                 IN  IF ~price.ok
                     THEN rejected
                     ELSE [swap_app EXCEPT
                              !.PENDING_SWAPS = AppendOffer(@, username, target, price.value),
                              !.status = "SEE_OTHER"]

\* the prices round() can give in swap_app.py: with the floats flexible_app.py
\* has, what flexible_app.py gets (prices, the PRICES it assigns); with an
\* operand that was never rounded, either cent next to a halfway value
swap_RoundedPrices(result, proposer_room, target_room, offered_price, prices) ==
    LET value == swap_app.PRICES[proposer_room] + swap_app.PRICES[target_room]
                     - offered_price
    IN  IF {proposer_room, target_room} \cap swap_app.unrounded # {}
        THEN IF value % 2 = 1
             THEN {[result EXCEPT ![proposer_room] = value - 1],
                   [result EXCEPT ![proposer_room] = value + 1]}
             ELSE {result}
        ELSE IF /\ swap_app.PRICES = PRICES
                /\ swap_app.ASSIGNMENT = ASSIGNMENT
                /\ swap_app.PENDING_SWAPS = PENDING_SWAPS
             THEN {prices}
             ELSE RoundedPrices(result, swap_app.PRICES, proposer_room, target_room,
                                offered_price)

\* do_POST of swap_app.py: /respond_swap; prices is what flexible_app.py
\* assigns to PRICES for the same request
swap_RespondSwap(username, proposer, raw_action, prices) ==
    LET action == ParseQs(raw_action)
        idx    == FindOffer(swap_app.PENDING_SWAPS, proposer, username)
    IN  IF idx = 0
        THEN swap_app' = [swap_app EXCEPT !.status = "BAD_REQUEST"]
        ELSE LET req            == swap_app.PENDING_SWAPS[idx]
                 popped         == PopAt(swap_app.PENDING_SWAPS, idx)
                 offered_price  == req.offered_price
                 old_assignment == swap_app.ASSIGNMENT
                 proposer_room  == old_assignment[proposer]
                 target_room    == old_assignment[username]
                 result         ==
                     IF IsAccept(action)
                     THEN AcceptPrices(swap_app.PRICES, proposer_room, target_room,
                                       offered_price)
                     ELSE DeclinePrices(swap_app.PRICES, proposer_room, target_room,
                                        offered_price)
             IN  \E rounded \in swap_RoundedPrices(result, proposer_room, target_room,
                                                   offered_price, prices) :
                     swap_app' =
                         [swap_app EXCEPT
                             !.ASSIGNMENT =
                                 IF IsAccept(action)
                                 THEN SwapRooms(@, proposer, username)
                                 ELSE @,
                             !.PRICES = rounded,
                             !.unrounded = @ \ {proposer_room, target_room},
                             !.PENDING_SWAPS =
                                 IF IsAccept(action)
                                 THEN PruneOffers(popped, old_assignment,
                                                  {proposer_room, target_room})
                                 ELSE popped,
                             !.status = "SEE_OTHER"]

\* a rent of 1.13, in half-cents: shared by two it leaves a cent over
TwinRents == {226}

\* two housemates, the rent, and one shuffle for both applications
InitTwin ==
    /\ \E total_rent \in TwinRents :
           SessionStart(SubSeq(Housemates, 1, 2), total_rent)
    /\ swap_app = swap_init_allocation(PEOPLE, TOTAL_RENT, ROOMS)

TwinPrices == {Blank, "0.125"}

\* every request is sent to both applications
NextTwin ==
    \/ \E username \in Bystander :
           Choose(username) /\ swap_Choose(username) /\ UNCHANGED net
    \/ \E username \in Bystander, raw_state \in RawStates :
           SetState(username, raw_state) /\ swap_SetState(username, raw_state)
               /\ UNCHANGED net
    \/ \E username \in Cookies :
           Forbidden(username) /\ swap_Forbidden /\ UNCHANGED net
    \/ \E username \in Cookies, target \in Names(PEOPLE), raw_price \in TwinPrices :
           ProposeSwap(username, target, raw_price)
               /\ swap_ProposeSwap(username, target, raw_price) /\ UNCHANGED net
    \/ \E username \in Cookies, proposer \in Names(PEOPLE), raw_action \in RawActions :
           RespondSwap(username, proposer, raw_action)
               /\ swap_RespondSwap(username, proposer, raw_action, PRICES')
               /\ UNCHANGED net

SpecTwin == InitTwin /\ [][NextTwin]_vars

-----------------------------------------------------------------------------
(* Requests arriving at the same time *)

\* browsers with a request under way each
Clients == {"tab_1", "tab_2"}

\* a request on the wire: its route, the cookie or ?user= name, the other
\* participant named by the form, and the form's price or action
Request(route, username, other, input) ==
    [route |-> route, username |-> username, other |-> other, input |-> input]

\* a client connects and sends request; it waits in the listening socket
Arrive(client, request) ==
    /\ client \notin {c.client : c \in backlog} \cup {h.client : h \in handlers}
    /\ backlog' = backlog \cup {[client |-> client, request |-> request]}
    /\ UNCHANGED <<engine, config, offers_made, last, handlers, swap_app>>

\* a server that starts a handler thread per connection
CanAcceptThreaded(running) == TRUE

\* http.server.HTTPServer: serve_forever runs the handler of a connection to
\* its end before it accepts the next
CanAccept(running) == running = {}

\* the server accepts a connection and its handler runs up to the test on
\* the shared state: the loop of /respond_swap that sets idx, the membership
\* test of /choose
Accept(conn) ==
    LET r == conn.request
    IN  /\ conn \in backlog
        /\ CanAccept(handlers)
        /\ backlog' = backlog \ {conn}
        /\ handlers' = handlers \cup
              {[client  |-> conn.client,
                request |-> r,
                idx     |-> IF r.route = "respond_swap"
                            THEN FindOffer(PENDING_SWAPS, r.other, r.username)
                            ELSE 0,
                found   |-> r.route = "choose" /\ IsAvailable(r.username)]}
        /\ UNCHANGED <<engine, config, offers_made, last, swap_app>>

\* the handler runs from its test to its answer
Finish(h) ==
    LET r == h.request
    IN  /\ h \in handlers
        /\ handlers' = handlers \ {h}
        /\ UNCHANGED <<backlog, swap_app>>
        /\ \/ r.route = "choose" /\ ChooseFound(r.username, h.found)
           \/ r.route = "propose_swap" /\ ProposeSwap(r.username, r.other, r.input)
           \/ r.route = "respond_swap"
                  /\ RespondAt(r.username, r.other, r.input, h.idx)

\* two browsers around the first housemate: both claim the name, the others
\* propose to them at a price of their own, and both browsers answer
RacePrices == {"0.25", "0.125"}

RaceRequests ==
    LET target == PEOPLE[1]
        others == Range(PEOPLE) \ {target}
    IN  {Request("choose", target, None, None)}
        \cup {Request("propose_swap", username, target, raw_price) :
                  username \in others, raw_price \in RacePrices}
        \cup {Request("respond_swap", target, proposer, raw_action) :
                  proposer \in others, raw_action \in {"accept", "decline"}}

\* the clients send their requests at any time; the server accepts and
\* answers
NextRace ==
    \/ \E client \in Clients, request \in RaceRequests : Arrive(client, request)
    \/ \E conn \in backlog : Accept(conn)
    \/ \E h \in handlers : Finish(h)

SpecRace == InitTrade /\ [][NextRace]_vars






-----------------------------------------------------------------------------
(* Properties *)

\* the last request was a /respond_swap that found its offer
Settled == last.op = "respond_swap" /\ last.status = "SEE_OTHER"

Accepted == Settled /\ last.input = "accept"

Declined == Settled /\ last.input = "decline"

\* offer i of the list pending is from proposer p to target t
IsOffer(pending, i, p, t) == pending[i].proposer = p /\ pending[i].target = t

\* i is the earliest offer from p to t in pending
IsFirstOffer(pending, i, p, t) ==
    /\ i \in 1..Len(pending)
    /\ IsOffer(pending, i, p, t)
    /\ \A j \in 1..(i - 1) : ~IsOffer(pending, j, p, t)

\* C1: in every reachable state the unit prices sum to the total rent
RentConserved == SumPrices(PRICES, ROOMS) = TOTAL_RENT

\* C2: in every reachable state ASSIGNMENT maps the participants one-to-one
\* onto unit_1..unit_n
AssignmentBijection ==
    LET units == Range(RoomNames(Len(PEOPLE)))
    IN  /\ DOMAIN ASSIGNMENT = Range(PEOPLE)
        /\ \A p \in Range(PEOPLE) : ASSIGNMENT[p] \in units
        /\ \A room \in units :
               Cardinality({p \in Range(PEOPLE) : ASSIGNMENT[p] = room}) = 1

\* a swap has been accepted after both participants claimed their names and
\* one of them declared a state
BijectionWitness ==
    /\ Accepted
    /\ ASSIGNMENT # last.old_assignment
    /\ last.user \notin AVAILABLE_NAMES /\ last.other \notin AVAILABLE_NAMES
    /\ STATES[last.user] = "satisfied"

\* the cents nearest to an amount
NearestCents(value) == IF value % 2 = 1 THEN {value - 1, value + 1} ELSE {value}

\* C3: after target T accepts the first pending offer (P, T, offered), P
\* holds T's former unit J and T holds P's former unit I, J costs offered
\* rounded to cents and I costs p_I + p_J - offered rounded to cents
AcceptEffect ==
    Accepted =>
        \E i \in 1..Len(last.old_pending) :
            /\ IsFirstOffer(last.old_pending, i, last.other, last.user)
            /\ LET offered == last.old_pending[i].offered_price
                   I == last.old_assignment[last.other]
                   J == last.old_assignment[last.user]
                   p_I == last.price_proposer_room
                   p_J == last.price_target_room
               IN  /\ I = last.proposer_room /\ J = last.target_room
                   /\ ASSIGNMENT[last.other] = J
                   /\ ASSIGNMENT[last.user] = I
                   /\ PRICES[J] = Round2(offered)
                   /\ PRICES[I] \in NearestCents(p_I + p_J - offered)

\* an offer priced with a fraction of a cent has been accepted
AcceptWitness ==
    /\ Accepted
    /\ last.offered_price % 2 = 1
    /\ PRICES[last.target_room] # last.price_target_room

\* C4: after target T declines the first pending offer (P, T, offered) every
\* participant holds the unit held before, T's unit J costs offered and P's
\* unit I costs p_I + p_J - offered, both rounded to cents
DeclineEffect ==
    Declined =>
        \E i \in 1..Len(last.old_pending) :
            /\ IsFirstOffer(last.old_pending, i, last.other, last.user)
            /\ LET offered == last.old_pending[i].offered_price
                   I == last.old_assignment[last.other]
                   J == last.old_assignment[last.user]
                   p_I == last.price_proposer_room
                   p_J == last.price_target_room
               IN  /\ ASSIGNMENT = last.old_assignment
                   /\ PRICES[J] = Round2(offered)
                   /\ PRICES[I] \in NearestCents(p_I + p_J - offered)

\* an offer priced with a fraction of a cent has been declined
DeclineWitness ==
    /\ Declined
    /\ last.offered_price % 2 = 1
    /\ PRICES[last.target_room] # last.price_target_room

\* C5: after an offer (P, T) is accepted no pending offer has a proposer or
\* a target that held, before the swap, one of the two swapped units; that
\* is, none names P or T
NoStaleOffers ==
    Accepted =>
        \A i \in 1..Len(PENDING_SWAPS) :
            LET r == PENDING_SWAPS[i]
                swapped == {last.proposer_room, last.target_room}
            IN  /\ last.old_assignment[r.proposer] \notin swapped
                /\ last.old_assignment[r.target] \notin swapped
                /\ {r.proposer, r.target} \cap {last.other, last.user} = {}

\* the accepted offer A->B was pending together with an offer B->C, C a
\* third participant, and that offer is gone
StaleOfferWitness ==
    /\ Accepted
    /\ \E i \in 1..Len(last.old_pending) :
           /\ last.old_pending[i].proposer = last.user
           /\ last.old_pending[i].target \notin {last.user, last.other}
    /\ PENDING_SWAPS = <<>>

\* the offers of pending that name neither p nor t, in order
Unrelated(pending, p, t) ==
    LET apart(r) == {r.proposer, r.target} \cap {p, t} = {}
    IN  SelectSeq(pending, apart)

\* C6: when an offer (P, T) is accepted, the pending offers that name
\* neither P nor T all stay, unchanged and in the same order
UnrelatedOffersKept ==
    Accepted =>
        /\ Unrelated(PENDING_SWAPS, last.other, last.user)
               = Unrelated(last.old_pending, last.other, last.user)
        /\ \A i \in 1..Len(last.old_pending) :
               {last.old_pending[i].proposer, last.old_pending[i].target}
                       \cap {last.other, last.user} = {}
                   => \E k \in 1..Len(PENDING_SWAPS) :
                          PENDING_SWAPS[k] = last.old_pending[i]

\* A->B was accepted while C->D was pending, and C->D is still there
UnrelatedOfferWitness ==
    /\ Accepted
    /\ Len(last.old_pending) = 2
    /\ Len(PENDING_SWAPS) = 1
    /\ {PENDING_SWAPS[1].proposer, PENDING_SWAPS[1].target}
           \cap {last.other, last.user} = {}

\* C7: a /propose_swap naming a valid target with the price absent, blank or
\* zero appends an offer priced at the current price of the target's unit
DefaultOfferPrice ==
    [][\A username \in Range(PEOPLE), target \in Range(PEOPLE),
          raw_price \in {None, "", Blank, "0"} :
            target # username /\ ProposeSwap(username, target, raw_price) =>
                PENDING_SWAPS' = Append(PENDING_SWAPS,
                    [proposer |-> username, target |-> target,
                     offered_price |-> PRICES[ASSIGNMENT[target]]])]_vars

\* C8: a /respond_swap settles the earliest pending offer from P to T: the
\* price used is that offer's, and on a decline every later offer, later
\* offers from P to T included, is still pending
FirstMatchSettled ==
    Settled =>
        \E i \in 1..Len(last.old_pending) :
            /\ IsFirstOffer(last.old_pending, i, last.other, last.user)
            /\ last.idx = i
            /\ PRICES[last.target_room] = Round2(last.old_pending[i].offered_price)
            /\ last.input # "accept" =>
                   \A j \in (i + 1)..Len(last.old_pending) :
                       PENDING_SWAPS[j - 1] = last.old_pending[j]

\* two offers from P to T at different prices were pending, T declined, and
\* the later one is the one left
FirstMatchWitness ==
    /\ Declined
    /\ Len(last.old_pending) = 2
    /\ IsOffer(last.old_pending, 1, last.other, last.user)
    /\ IsOffer(last.old_pending, 2, last.other, last.user)
    /\ last.old_pending[1].offered_price # last.old_pending[2].offered_price
    /\ PENDING_SWAPS = <<last.old_pending[2]>>

\* C9: a decline removes exactly one offer, the first from P to T; every
\* other pending offer remains, unchanged and in the same order
DeclineConsumesOne ==
    Declined =>
        /\ Len(PENDING_SWAPS) = Len(last.old_pending) - 1
        /\ \E i \in 1..Len(last.old_pending) :
               /\ IsFirstOffer(last.old_pending, i, last.other, last.user)
               /\ \A k \in 1..Len(PENDING_SWAPS) :
                      PENDING_SWAPS[k] = IF k < i THEN last.old_pending[k]
                                         ELSE last.old_pending[k + 1]

\* T declined P's offer while an offer from T to P was pending ahead of it,
\* and that offer is still there
DeclineWitnessOther ==
    /\ Declined
    /\ Len(last.old_pending) = 2
    /\ IsOffer(last.old_pending, 1, last.user, last.other)
    /\ PENDING_SWAPS = <<last.old_pending[1]>>

\* the answer to the last request is an error, or it is the answer to a
\* /set_state whose value is not a state
ErrorAnswer(answer) ==
    \/ answer.status \in {"ERROR_PAGE", "FORBIDDEN", "BAD_REQUEST"}
    \/ answer.op = "set_state" /\ answer.input \notin {"satisfied", "unsatisfied"}

\* C10: a request that ends in an error leaves ASSIGNMENT, PRICES, STATES,
\* PENDING_SWAPS and AVAILABLE_NAMES as they were
ErrorAtomicity == [][ErrorAnswer(last') => UNCHANGED engine]_vars

\* an error answered in a session with a name claimed, a state declared and
\* an offer pending
ErrorWitness ==
    /\ ErrorAnswer(last)
    /\ AVAILABLE_NAMES # Range(PEOPLE)
    /\ \E p \in Range(PEOPLE) : STATES[p] # None
    /\ PENDING_SWAPS # <<>>

\* C11: in every reachable state the price of every unit is at least 0
NonNegativePrices == \A room \in Range(ROOMS) : PRICES[room] >= 0

\* C12: a /respond_swap that settles an offer changes no price but those of
\* the proposer's and the target's units, moves no participant but the
\* proposer and the target, and leaves STATES and AVAILABLE_NAMES as they were
SettlementFrame ==
    [][Settled' =>
        LET pair  == {last'.user, last'.other}
            units == {ASSIGNMENT[p] : p \in pair}
        IN  /\ \A room \in Range(ROOMS) \ units : PRICES'[room] = PRICES[room]
            /\ \A p \in Range(PEOPLE) \ pair : ASSIGNMENT'[p] = ASSIGNMENT[p]
            /\ UNCHANGED <<STATES, AVAILABLE_NAMES>>]_vars

\* an offer below the current rate was accepted while a third housemate had
\* claimed a name and declared a state; the pair's prices moved, the third's
\* did not
SettlementFrameWitness ==
    /\ Accepted
    /\ PRICES[last.target_room] # last.price_target_room
    /\ \E p \in Range(PEOPLE) \ {last.user, last.other} :
           /\ STATES[p] # None
           /\ p \notin AVAILABLE_NAMES
           /\ ASSIGNMENT[p] = last.old_assignment[p]
           /\ PRICES[ASSIGNMENT[p]] = InitialPrices(TOTAL_RENT, ROOMS)[ASSIGNMENT[p]]

\* C13: right after init_allocation every unit but one is priced at the
\* rent divided by the number of participants, rounded to cents; the
\* remaining unit carries that price plus the leftover, and the prices sum to
\* the rent
InitialPricing ==
    last.op = "init_allocation" =>
        LET n          == Len(PEOPLE)
            base_price == RoundShare(TOTAL_RENT, n)
            leftover   == TOTAL_RENT - n * base_price
        IN  /\ \E designated \in Range(ROOMS) :
                   /\ \A room \in Range(ROOMS) \ {designated} :
                          PRICES[room] = base_price
                   /\ PRICES[designated] = base_price + leftover
            /\ SumPrices(PRICES, ROOMS) = TOTAL_RENT

\* init_allocation(100) for three participants: 33.33, 33.33 and 33.34
InitialPricingWitness ==
    /\ last.op = "init_allocation"
    /\ TOTAL_RENT = 20000
    /\ Len(PEOPLE) = 3
    /\ PRICES[ROOMS[1]] = 6666
    /\ PRICES[ROOMS[2]] = 6666
    /\ PRICES[ROOMS[3]] = 6668

\* C14: right after init_allocation, whatever the session was before, every
\* name is available, no participant has a state and no offer is pending
SessionReset ==
    last.op = "init_allocation" =>
        /\ AVAILABLE_NAMES = Range(PEOPLE)
        /\ \A p \in Range(PEOPLE) : STATES[p] = None
        /\ PENDING_SWAPS = <<>>

\* init_allocation ran on a session with a name claimed, a state declared
\* and an offer pending
SessionResetWitness ==
    /\ last.op = "init_allocation"
    /\ last.old_pending # <<>>
    /\ last.old_available # Range(PEOPLE)
    /\ \E p \in DOMAIN last.old_states : last.old_states[p] # None

\* a step never adds a name to AVAILABLE_NAMES, and a /choose of an
\* available name removes that name and redirects
ExclusiveClaims ==
    /\ AVAILABLE_NAMES' \subseteq AVAILABLE_NAMES
    /\ \A name \in AVAILABLE_NAMES :
           Choose(name) => /\ AVAILABLE_NAMES' = AVAILABLE_NAMES \ {name}
                           /\ last'.status = "SEE_OTHER"

SetStateFrame ==
    [][\A username \in Range(PEOPLE), state \in {"satisfied", "unsatisfied"} :
           SetState(username, state) =>
               /\ STATES' = [STATES EXCEPT ![username] = state]
               /\ UNCHANGED <<ASSIGNMENT, PRICES, PENDING_SWAPS, AVAILABLE_NAMES>>]_vars

\* a participant declared a state while the other had declared the opposite,
\* a name was claimed and an offer was pending
SetStateFrameWitness ==
    /\ last.op = "set_state"
    /\ last.input \in {"satisfied", "unsatisfied"}
    /\ STATES[last.user] = last.input
    /\ \E p \in Range(PEOPLE) \ {last.user} : STATES[p] \notin {None, last.input}
    /\ AVAILABLE_NAMES # Range(PEOPLE)
    /\ PENDING_SWAPS # <<>>

\* C17: a /set_state whose value is neither satisfied nor unsatisfied, or is
\* missing, is not answered as a successful one is
InvalidStateReported ==
    (last.op = "set_state" /\ last.input \notin {"satisfied", "unsatisfied"})
        => last.status # "SEE_OTHER"

\* C18: in every reachable state each pending offer names a proposer and a
\* target that are two different participants and carries an offered price
\* that is at least 0
WellFormedOffers ==
    \A i \in 1..Len(PENDING_SWAPS) :
        LET r == PENDING_SWAPS[i]
        IN  /\ r.proposer \in Range(PEOPLE)
            /\ r.target \in Range(PEOPLE)
            /\ r.proposer # r.target
            /\ r.offered_price # NaN
            /\ r.offered_price >= 0

\* the last request was a /propose_swap that was accepted into the list
Proposed == last.op = "propose_swap" /\ last.status = "SEE_OTHER"

\* C19: a successful /propose_swap leaves the pending list as it found it,
\* with one offer added at the end, even when an equal offer is pending
ProposeAppends ==
    Proposed =>
        PENDING_SWAPS = Append(last.old_pending,
                               [proposer |-> last.user, target |-> last.other,
                                offered_price |-> last.offered_price])

\* an offer was proposed while an offer with the same proposer, target and
\* price was pending, and both are in the list
DuplicateOfferWitness ==
    /\ Proposed
    /\ Len(PENDING_SWAPS) = 2
    /\ PENDING_SWAPS[1] = PENDING_SWAPS[2]
    /\ last.old_pending = <<PENDING_SWAPS[1]>>

\* the list pending without the offers at the positions in gone
Without(pending, gone) ==
    LET kept == (1..Len(pending)) \ gone
        nth(k) == CHOOSE j \in kept : Cardinality({m \in kept : m <= j}) = k
    IN  [k \in 1..Cardinality(kept) |-> pending[nth(k)]]

\* C20: an offer enters the pending list only at its end, by a successful
\* /propose_swap, and stays while no /respond_swap settles an offer; a
\* /respond_swap that settles removes the offer it answers (accepted, or
\* declined when the action is not accept) and, on an accept only, offers
\* that name the proposer or the target (invalidated); no other step changes
\* the list, so an offer that left is not put back nor answered again
OfferLifecycle ==
    [][IF Proposed'
       THEN \E r \in Range(PENDING_SWAPS') : PENDING_SWAPS' = Append(PENDING_SWAPS, r)
       ELSE IF Settled'
       THEN \E gone \in SUBSET (1..Len(PENDING_SWAPS)) :
                /\ last'.idx \in gone
                /\ IsOffer(PENDING_SWAPS, last'.idx, last'.other, last'.user)
                /\ PENDING_SWAPS' = Without(PENDING_SWAPS, gone)
                /\ last'.input # "accept" => gone = {last'.idx}
                /\ \A k \in gone \ {last'.idx} :
                       {PENDING_SWAPS[k].proposer, PENDING_SWAPS[k].target}
                           \cap {last'.user, last'.other} # {}
       ELSE PENDING_SWAPS' = PENDING_SWAPS]_vars

\* an accept took two different offers out of the list: the one accepted and
\* one it invalidated
OfferLifecycleWitness ==
    /\ Accepted
    /\ Len(last.old_pending) = 2
    /\ last.old_pending[1] # last.old_pending[2]
    /\ PENDING_SWAPS = <<>>

\* some connection, waiting or being handled, carries request
Pending(request) ==
    \/ \E conn \in backlog : conn.request = request
    \/ \E h \in handlers : h.request = request

\* the number of offers from p to t in pending
OffersFrom(pending, p, t) ==
    Cardinality({i \in 1..Len(pending) : IsOffer(pending, i, p, t)})

\* no handler runs between the test and the answer of another: at most one
\* handler is under way and what it found still holds; a /respond_swap that
\* settles the one offer from P to T leaves nothing to find for a
\* /respond_swap on the same offer that arrived with it, and a /choose that
\* succeeds leaves the name unavailable to a /choose that arrived with it
MutualExclusion ==
    /\ Cardinality(handlers) <= 1
    /\ \A h \in handlers :
           /\ h.request.route = "respond_swap" =>
                  h.idx = FindOffer(PENDING_SWAPS, h.request.other, h.request.username)
           /\ h.request.route = "choose" => h.found = IsAvailable(h.request.username)
    /\ Settled => IsFirstOffer(last.old_pending, last.idx, last.other, last.user)
    /\ \A raw_action \in RawActions :
           (/\ Settled
            /\ OffersFrom(last.old_pending, last.other, last.user) = 1
            /\ Pending(Request("respond_swap", last.user, last.other, raw_action)))
               => FindOffer(PENDING_SWAPS, last.other, last.user) = 0
    /\ (/\ last.op = "choose"
        /\ last.status = "SEE_OTHER"
        /\ Pending(Request("choose", last.user, None, None)))
           => ~IsAvailable(last.user)

\* C21: with requests arriving at the same time each /choose,
\* /propose_swap and /respond_swap takes effect as a whole, and the prices
\* still sum to the rent and ASSIGNMENT is still one-to-one
RaceAtomic == MutualExclusion /\ RentConserved /\ AssignmentBijection

\* C22: once T has declined an offer (P, T, x), a second offer (P, T, x)
\* declined by T leaves both units at the prices the first decline gave
\* them: T's unit at x and P's unit at the pair's total less x
DeclineIdempotent ==
    Declined =>
        LET I == last.proposer_room
            J == last.target_room
            x == last.offered_price
        IN  RoundedPrices(DeclinePrices(PRICES, I, J, x), PRICES, I, J, x) = {PRICES}

\* Karim has accepted Hassan's offer at 800.00, the first request of a
\* session of the four housemates
ScenarioRun ==
    /\ Accepted
    /\ PEOPLE = Housemates
    /\ last.user = "Karim"
    /\ last.other = "Hassan"
    /\ last.offered_price = 160000
    /\ Len(last.old_pending) = 1
    /\ last.price_proposer_room = 180300
    /\ last.price_target_room = 180300

\* after init_allocation(3606) for the four housemates every unit costs 901.50
ScenarioStart ==
    (last.op = "init_allocation" /\ PEOPLE = Housemates)
        => \A room \in Range(ROOMS) : PRICES[room] = 180300

\* C23 as stated: every unit starts at 901.50; after Hassan proposes to Karim
\* at 800 and Karim accepts, the unit Karim occupies after the swap costs
\* 800.00, the unit Hassan occupied before it costs 1003.00 and the prices
\* sum to 3606.00
ScenarioAsStated ==
    /\ ScenarioStart
    /\ ScenarioRun =>
           /\ PRICES[ASSIGNMENT["Karim"]] = 160000
           /\ PRICES[last.old_assignment["Hassan"]] = 200600
           /\ SumPrices(PRICES, ROOMS) = 721200

\* C23: every unit starts at 901.50; after Hassan proposes to Karim at 800
\* and Karim accepts, the unit Karim occupied before the swap, now Hassan's,
\* costs 800.00, the unit Hassan occupied before it, now Karim's, costs
\* 1003.00 and the prices sum to 3606.00
Scenario ==
    /\ ScenarioStart
    /\ ScenarioRun =>
           /\ ASSIGNMENT["Hassan"] = last.old_assignment["Karim"]
           /\ ASSIGNMENT["Karim"] = last.old_assignment["Hassan"]
           /\ PRICES[ASSIGNMENT["Hassan"]] = 160000
           /\ PRICES[ASSIGNMENT["Karim"]] = 200600
           /\ SumPrices(PRICES, ROOMS) = 721200

\* the run of the scenario has taken place and the two others still pay 901.50
ScenarioWitness ==
    /\ ScenarioRun
    /\ PENDING_SWAPS = <<>>
    /\ PRICES[ASSIGNMENT["Benjamin"]] = 180300
    /\ PRICES[ASSIGNMENT["Hassaan"]] = 180300

\* whether a request would be answered with a redirect in the current state
ChooseSucceeds(username) ==
    ENABLED (Choose(username) /\ last'.status = "SEE_OTHER")

ProposeSucceeds(username, target, raw_price) ==
    ENABLED (ProposeSwap(username, target, raw_price) /\ last'.status = "SEE_OTHER")

RespondSucceeds(username, proposer, raw_action) ==
    ENABLED (RespondSwap(username, proposer, raw_action) /\ last'.status = "SEE_OTHER")

Distinct(names) ==
    \A i, j \in DOMAIN names : names[i] = names[j] => i = j

\* C25: a configuration with no participant, with a name given twice or with
\* a rent that is not positive is refused and leaves the state as it was;
\* any other configuration, names differing only in case included, is taken
\* as given
ConfigurationChecked ==
    [][\A total \in ConfigTotals, names \in ConfigNames :
           Main(total, names) =>
               IF names # <<>> /\ Distinct(names) /\ total > 0
               THEN /\ last'.status # "SystemExit"
                    /\ PEOPLE' = names
                    /\ TOTAL_RENT' = total
               ELSE /\ last'.status = "SystemExit"
                    /\ UNCHANGED <<engine, config>>]_vars

\* C26: when the offer a target accepts is priced at the price the target's
\* unit has at that moment, the accept changes no price and only exchanges
\* the occupants of the two units
CurrentRateNeutral ==
    [][(Accepted' /\ last'.offered_price = PRICES[last'.target_room]) =>
           /\ PRICES' = PRICES
           /\ ASSIGNMENT' = [ASSIGNMENT EXCEPT ![last'.other] = ASSIGNMENT[last'.user],
                                               ![last'.user] = ASSIGNMENT[last'.other]]
           /\ ASSIGNMENT' # ASSIGNMENT]_vars

\* an offer at the current rate was accepted between two units of different
\* prices, and the prices are those from before
CurrentRateNeutralWitness ==
    /\ Accepted
    /\ last.offered_price = last.price_target_room
    /\ last.price_proposer_room # last.price_target_room
    /\ PRICES[last.target_room] = last.price_target_room
    /\ PRICES[last.proposer_room] = last.price_proposer_room

\* C27: an offer that is pending after a request is, price included, the
\* offer it was before the request, whatever the request did to the price of
\* the target's unit; and a /respond_swap prices the target's unit at the
\* price stored in the offer it answers
OfferSnapshot ==
    [][last'.op # "init_allocation" =>
           /\ \E gone \in SUBSET (1..Len(PENDING_SWAPS)) :
                  Without(PENDING_SWAPS, gone) =
                      IF Proposed'
                      THEN SubSeq(PENDING_SWAPS', 1, Len(PENDING_SWAPS') - 1)
                      ELSE PENDING_SWAPS'
           /\ Settled' =>
                  PRICES'[last'.target_room] =
                      Round2(PENDING_SWAPS[last'.idx].offered_price)]_vars

\* an offer made at the current rate, when every unit had its initial price,
\* was answered after the target's unit had been re-priced, and the unit now
\* has the initial price again
OfferSnapshotWitness ==
    /\ Settled
    /\ last.offered_price = InitialPrices(TOTAL_RENT, ROOMS)[last.target_room]
    /\ last.price_target_room # last.offered_price
    /\ PRICES[last.target_room] = last.offered_price

\* C28: a /respond_swap naming a pending offer with an action that is not
\* accept, be it missing or unknown, is answered as a success: it takes the
\* offer it answers out of the list, leaves every participant in their unit
\* and prices the two units as a decline does, the others keeping theirs
NonAcceptDeclines ==
    [][/\ \A username \in Range(PEOPLE), proposer \in Range(PEOPLE),
             raw_action \in RawActions \ {"accept"} :
               (/\ last'.op = "respond_swap"
                /\ \E i \in 1..Len(PENDING_SWAPS) :
                       IsOffer(PENDING_SWAPS, i, proposer, username)
                /\ RespondSwap(username, proposer, raw_action))
                   => Settled'
       /\ (Settled' /\ last'.input \notin {"accept", "decline"}) =>
               LET offered == PENDING_SWAPS[last'.idx].offered_price
                   I == ASSIGNMENT[last'.other]
                   J == ASSIGNMENT[last'.user]
               IN  /\ ASSIGNMENT' = ASSIGNMENT
                   /\ PENDING_SWAPS' = Without(PENDING_SWAPS, {last'.idx})
                   /\ PRICES'[J] = Round2(offered)
                   /\ PRICES'[I] \in NearestCents(PRICES[I] + PRICES[J] - offered)
                   /\ \A room \in Range(ROOMS) \ {I, J} :
                          PRICES'[room] = PRICES[room]]_vars

\* an offer priced with a fraction of a cent was answered with an action
\* that is neither accept nor decline, and the two units were re-priced
NonAcceptDeclinesWitness ==
    /\ Settled
    /\ last.input \notin {"accept", "decline"}
    /\ last.offered_price % 2 = 1
    /\ PRICES[last.target_room] # last.price_target_room
    /\ Len(PENDING_SWAPS) = Len(last.old_pending) - 1

\* C29: in every reachable state a /propose_swap from a participant to
\* another participant with a blank or a zero price is answered as a success
\* and appends an offer
AlwaysOfferable ==
    [][\A username \in Range(PEOPLE), target \in Range(PEOPLE),
          raw_price \in {Blank, "0"} :
           (/\ target # username
            /\ last'.op = "propose_swap"
            /\ ProposeSwap(username, target, raw_price)) =>
               /\ Proposed'
               /\ Len(PENDING_SWAPS') = Len(PENDING_SWAPS) + 1]_vars

\* C30: swap_app.py, started with the participants, the rent and the
\* assignment of flexible_app.py and sent the same requests, has after every
\* request the ASSIGNMENT, PRICES, STATES, PENDING_SWAPS and AVAILABLE_NAMES
\* of flexible_app.py and has answered with the same status
SameEngine ==
    /\ swap_app.ASSIGNMENT = ASSIGNMENT
    /\ swap_app.PRICES = PRICES
    /\ swap_app.STATES = STATES
    /\ swap_app.PENDING_SWAPS = PENDING_SWAPS
    /\ swap_app.AVAILABLE_NAMES = AVAILABLE_NAMES
    /\ swap_app.status = last.status

====
